---- MODULE Spec2Model ----
(***************************************************************************)
(* A model of the quantum music generator: the bitstring-to-pitch mapper   *)
(* (QuantumMusicGenerator.quantum_to_note), the sequence assembler          *)
(* (generate_melody), the rhythm gate generator (generate_rhythm), the      *)
(* full-composition mode (generate_full_composition) and the request        *)
(* handler of the web interface (generate_music, POST /api/generate).       *)
(*                                                                          *)
(* Strings are sequences of one-character strings, so that the character    *)
(* level operations of the code (replace, filter, slice, int(_, 2)) are     *)
(* computed rather than assumed.                                            *)
(***************************************************************************)
EXTENDS Integers, Sequences, FiniteSets, TLC

VARIABLES
    pc,               \* control point of the running function
    data,             \* the JSON body of the request, NoRequest outside a request
    args,             \* generate_melody's parameters: num_notes, base_note, scale_type
    counts,           \* execute_circuit's result: sequence of <<state, count>> (dict order)
    all_measurements, \* generate_melody's flat list of measurement tokens
    melody,           \* the music21 stream's notes and rests, in offset order
    num_beats,        \* generate_rhythm's parameter
    rhythm,           \* generate_rhythm's list of 0/1
    file,             \* the temporary MIDI file of the request
    notes_info,       \* the handler's list of {note, duration}
    response,         \* the handler's HTTP response, NoResponse before it is sent
    quantum_state,    \* quantum_to_note's parameter (direct call)
    clean_state,      \* quantum_to_note's local after normalisation
    note_index,       \* quantum_to_note's local
    semitone_offset,  \* quantum_to_note's local
    note_name,        \* quantum_to_note's return value
    exception         \* the exception being propagated, "none" when there is none

vars == <<pc, data, args, counts, all_measurements, melody, num_beats, rhythm,
          file, notes_info, response, quantum_state, clean_state, note_index,
          semitone_offset, note_name, exception>>

(***************************************************************************)
(* Bounds of the model.                                                    *)
(***************************************************************************)
\* longest token enumerated for a direct call of quantum_to_note
MaxTokenLen == 5
\* largest num_notes of a melody or rhythm request, and of a direct call
MaxNotes == 3

(***************************************************************************)
(* Program constants.                                                      *)
(***************************************************************************)
\* quantum_to_note keeps the first four bits of a token
BitsUsed == 4
\* the number of semitones the note index is reduced by
Semitones == 12
\* notes per measure in full-composition mode
NotesPerMeasure == 8
\* random.randint(0, 255): the largest fallback bit pattern
MaxRandomByte == 255
\* format(_, '08b'): the width of a fallback bit pattern
ByteWidth == 8
\* the octave generate_full_composition appends to the key letter
FullOctave == 4
\* HTTP status of the failure response
ErrorStatus == 500
\* HTTP status of a response returned without an explicit status
OkStatus == 200

(***************************************************************************)
(* Characters and strings.                                                 *)
(***************************************************************************)
\* the characters tokens are enumerated over: bits, the separator, and a
\* non-binary character ("0" followed by "x" is the prefix the code removes)
Chars == {"0", "1", " ", "x"}

IsBit(c) == c \in {"0", "1"}

\* all(c in '01' for c in s)
AllBinary(s) == \A i \in 1..Len(s) : IsBit(s[i])

\* s.replace(' ', '')
StripSpaces(s) == SelectSeq(s, LAMBDA c : c /= " ")

\* s.replace('0x', ''): non-overlapping occurrences, left to right, one pass
RECURSIVE Remove0xFrom(_, _)
Remove0xFrom(s, i) ==
    IF i > Len(s) THEN <<>>
    ELSE IF i < Len(s) /\ s[i] = "0" /\ s[i + 1] = "x" THEN Remove0xFrom(s, i + 2)
    ELSE <<s[i]>> \o Remove0xFrom(s, i + 1)

Remove0x(s) == Remove0xFrom(s, 1)

\* ''.join(c for c in s if c in '01')
OnlyBits(s) == SelectSeq(s, IsBit)

\* quantum_to_note, lines 150-162: the normalisation of the token
\* faulty variant: the cut is taken one digit early
NormalizeTruncateWrong(s) ==
    IF Len(s) >= BitsUsed THEN SubSeq(s, 1, BitsUsed - 1)
    ELSE IF Len(s) = 0 THEN <<"0">>
    ELSE s

\* faulty variant: the empty string is not replaced
NormalizeTruncateNoFallback(s) ==
    IF Len(s) > BitsUsed THEN SubSeq(s, 1, BitsUsed) ELSE s

NormalizeTruncate(s) ==
    IF Len(s) > BitsUsed THEN SubSeq(s, 1, BitsUsed)
    ELSE IF Len(s) = 0 THEN <<"0">>
    ELSE s

NormalizeFilter(s) == IF ~AllBinary(s) THEN OnlyBits(s) ELSE s

\* each step is applied to the value of the step before it
Normalize(q) ==
    CHOOSE clean \in
        { NormalizeTruncate(filtered) :
            filtered \in { NormalizeFilter(stripped) :
                stripped \in { Remove0x(spaceless) :
                    spaceless \in {StripSpaces(q)} } } } : TRUE

\* int(s, 2) succeeds on a non-empty string of binary digits
IntBase2Valid(s) == Len(s) > 0 /\ AllBinary(s)

\* the value of the first n digits of s, most significant digit first
RECURSIVE IntBase2Upto(_, _)
IntBase2Upto(s, n) ==
    IF n = 0 THEN 0
    ELSE 2 * IntBase2Upto(s, n - 1) + (IF s[n] = "1" THEN 1 ELSE 0)

IntBase2(s) == IntBase2Upto(s, Len(s))

\* lines 165-169: int(clean_state, 2) % 12, or hash(clean_state) % 12 when
\* int raises ValueError; str hashes differ from process to process, so the
\* fallback is any residue
NoteIndexSet(s) ==
    IF IntBase2Valid(s) THEN {IntBase2(s) % Semitones} ELSE 0..(Semitones - 1)

(***************************************************************************)
(* Scales (QuantumMusicGenerator.__init__).                                *)
(***************************************************************************)
major_scale == <<0, 2, 4, 5, 7, 9, 11>>
minor_scale == <<0, 2, 3, 5, 7, 8, 10>>
chromatic_scale == [i \in 1..Semitones |-> i - 1]

\* lines 172-177
ScaleIntervals(scale_type) ==
    IF scale_type = "major" THEN major_scale
    ELSE IF scale_type = "minor" THEN minor_scale
    ELSE chromatic_scale

\* lines 180-181 (Python lists are 0-based)
\* faulty variant: the index is not reduced by the scale's length
ScaleNoteWrong(idx, scale_intervals) == idx % Semitones

ScaleNote(idx, scale_intervals) == idx % Len(scale_intervals)

SemitoneOffset(idx, scale_type) ==
    LET scale_intervals == ScaleIntervals(scale_type)
    IN  IF ScaleNote(idx, scale_intervals) + 1 \in DOMAIN scale_intervals
        THEN scale_intervals[ScaleNote(idx, scale_intervals) + 1]
        ELSE -1   \* IndexError

(***************************************************************************)
(* Pitch names (music21's note.Note(name).pitch.midi and nameWithOctave).  *)
(***************************************************************************)
Digits == <<"0", "1", "2", "3", "4", "5", "6", "7", "8", "9">>

IsDigit(c) == \E i \in DOMAIN Digits : Digits[i] = c

DigitValue(c) == (CHOOSE i \in DOMAIN Digits : Digits[i] = c) - 1

Steps == {"C", "D", "E", "F", "G", "A", "B"}

StepPitchClass(c) ==
    CASE c = "C" -> 0 [] c = "D" -> 2 [] c = "E" -> 4 [] c = "F" -> 5
      [] c = "G" -> 7 [] c = "A" -> 9 [] c = "B" -> 11

\* a step letter, an optional accidental ('#' sharp, '-' flat), an octave digit
ValidNoteName(name) ==
    \/ Len(name) = 2 /\ name[1] \in Steps /\ IsDigit(name[2])
    \/ Len(name) = 3 /\ name[1] \in Steps /\ name[2] \in {"#", "-"} /\ IsDigit(name[3])

\* note.Note(name).pitch.midi: octaves start at C, C4 is 60
MidiOf(name) ==
    LET alter == IF Len(name) = 3 THEN (IF name[2] = "#" THEN 1 ELSE -1) ELSE 0
        octave == DigitValue(name[Len(name)])
    IN  Semitones * (octave + 1) + StepPitchClass(name[1]) + alter

\* the spelling music21 infers for a pitch set by MIDI number
PitchClassNames ==
    << <<"C">>, <<"C", "#">>, <<"D">>, <<"E", "-">>, <<"E">>, <<"F">>,
       <<"F", "#">>, <<"G">>, <<"G", "#">>, <<"A">>, <<"B", "-">>, <<"B">> >>

\* new_note.pitch.midi = midi; new_note.nameWithOctave
NameWithOctave(midi) ==
    PitchClassNames[(midi % Semitones) + 1] \o <<Digits[(midi \div Semitones)]>>

(***************************************************************************)
(* quantum_to_note as a relation: the possible outcomes of one call.       *)
(* An outcome is a record of the locals and the returned name; ok is FALSE *)
(* when the call raises (an unparsable base note, an index error).         *)
(***************************************************************************)
\* faulty variant: off by one semitone
NewMidiWrong(base_midi, offset) == base_midi + offset + 1

\* line 188
NewMidi(base_midi, offset) == base_midi + offset

\* lines 171-194 for one note index: the outcome record
Outcome(clean, idx, base_note, scale_type) ==
    LET offset == SemitoneOffset(idx, scale_type)
        ok == offset >= 0 /\ ValidNoteName(base_note)
    IN  [ok     |-> ok,
         error  |-> IF offset < 0 THEN "IndexError"
                    ELSE IF ~ValidNoteName(base_note) THEN "PitchException"
                    ELSE "none",
         clean  |-> clean,
         idx    |-> idx,
         offset |-> offset,
         name   |-> IF ok THEN NameWithOctave(NewMidi(MidiOf(base_note), offset))
                    ELSE <<>>]

QuantumToNote(q, base_note, scale_type) ==
    UNION { { Outcome(clean, idx, base_note, scale_type) : idx \in NoteIndexSet(clean) }
            : clean \in {Normalize(q)} }

(***************************************************************************)
(* Inputs of a direct call of quantum_to_note.                             *)
(***************************************************************************)
RECURSIVE StringsUpTo(_)
StringsUpTo(n) ==
    IF n = 0 THEN {<<>>}
    ELSE LET shorter == StringsUpTo(n - 1)
         IN  shorter \cup {Append(s, c) : s \in {t \in shorter : Len(t) = n - 1}, c \in Chars}

\* the token formats the code's comment names, and the spec's scenarios
ScenarioTokens ==
    { <<"0", "0", "0", "0", "0", "0", "0", "0">>,
      <<"0", "0", "1", "0">>,
      <<"0", "x", "0", "0">>,
      <<"0", "0", "0", "0", "0", "0", "0", "0", " ",
        "0", "0", "0", "0", "0", "0", "0", "0">> }

Tokens == StringsUpTo(MaxTokenLen) \cup ScenarioTokens

C4 == <<"C", "4">>

BaseNotes ==
    { C4, <<"A", "3">>, <<"F", "#", "4">>, <<"B", "-", "4">>, <<"E", "5">>,
      <<"D", "-", "3">> }

\* 'blues' stands for any name other than major and minor
ScaleNames == {"major", "minor", "chromatic", "blues"}

\* no request is being handled (a direct call of the generator)
NoRequest == [num_notes |-> 0, base_note |-> <<>>, scale_type |-> "none", type |-> "none"]
\* no response has been returned yet
NoResponse == [success |-> FALSE, status |-> 0, file |-> "none", notes |-> <<>>,
               error |-> "none"]
NoArgs == [num_notes |-> 0, base_note |-> <<>>, scale_type |-> "none"]

InitNote ==
    /\ pc = "q2n_call"
    /\ quantum_state \in Tokens
    /\ args \in [num_notes : {0}, base_note : BaseNotes, scale_type : ScaleNames]
    /\ data = NoRequest
    /\ counts = <<>>
    /\ all_measurements = <<>>
    /\ melody = <<>>
    /\ num_beats = 0
    /\ rhythm = <<>>
    /\ file = "none"
    /\ notes_info = <<>>
    /\ response = NoResponse
    /\ clean_state = <<>>
    /\ note_index = 0
    /\ semitone_offset = 0
    /\ note_name = <<>>
    /\ exception = "none"

\* one call of quantum_to_note(quantum_state, base_note, scale_type)
QuantumToNoteCall ==
    /\ pc = "q2n_call"
    /\ \E r \in QuantumToNote(quantum_state, args.base_note, args.scale_type) :
          /\ clean_state' = r.clean
          /\ note_index' = r.idx
          /\ semitone_offset' = r.offset
          /\ note_name' = r.name
          /\ pc' = IF r.ok THEN "q2n_return" ELSE "raised"
          /\ exception' = IF r.ok THEN "none" ELSE r.error
    /\ UNCHANGED <<data, args, counts, all_measurements, melody, num_beats, rhythm,
                   file, notes_info, response, quantum_state>>

NextNote == QuantumToNoteCall

SpecNote == InitNote /\ [][NextNote]_vars

(***************************************************************************)
(* The sampling source (execute_circuit) and the random fallback.          *)
(***************************************************************************)
\* how far below the requested shots the total of the returned counts may be
MaxShort == 1
\* how far above the requested shots the total of the returned counts may be
MaxOver == 1
\* how many num_notes values from NotesPerMeasure upwards a request may carry
MaxExtra == 1

\* the measurement tokens the sampling source returns: a register pair with a
\* separator, and a prefixed token
TokenA == <<"0", "0", "1", "0", "1", " ", "0", "0">>
TokenB == <<"0", "x", "1", "0", "1", "1">>
TokenSet == {TokenA, TokenB}

\* the orders in which a dict can hold distinct keys of TokenSet
KeyOrders ==
    {<<>>} \cup {<<t>> : t \in TokenSet}
           \cup {p \in TokenSet \X TokenSet : p[1] /= p[2]}

RECURSIVE SumCountsFrom(_, _)
SumCountsFrom(c, i) == IF i > Len(c) THEN 0 ELSE c[i][2] + SumCountsFrom(c, i + 1)

\* the total of the counts of a mapping
SumCounts(c) == SumCountsFrom(c, 1)

\* execute_circuit(qc, shots): a mapping from observed tokens to counts, as a
\* sequence of <<state, count>> in the dict's insertion order. The total of
\* the counts lies within MaxShort below and MaxOver above the shots asked
\* for; a source that observed nothing at all (the empty mapping) is modelled
\* for batches of up to MaxNotes shots.
SamplerResults(shots) ==
    (IF shots <= MaxNotes THEN {<<>>} ELSE {}) \cup
    { c \in UNION { [1..Len(ks) -> {<<ks[i], n>> : i \in 1..Len(ks), n \in 1..(shots + MaxOver)}]
                    : ks \in KeyOrders \ {<<>>} } :
        /\ \A i \in 1..Len(c) : \A j \in 1..Len(c) : (c[i][1] = c[j][1]) => (i = j)
        /\ SumCounts(c) >= shots - MaxShort
        /\ SumCounts(c) <= shots + MaxOver }

\* the values random.randint(0, 255) is drawn from in the model
RandInts == {0, 181} \cap (0..MaxRandomByte)

\* format(n, '08b')
RECURSIVE Pow2(_)
Pow2(n) == IF n = 0 THEN 1 ELSE 2 * Pow2(n - 1)

Format08b(n) ==
    [i \in 1..ByteWidth |->
        IF (n \div Pow2(ByteWidth - i)) % 2 = 1 THEN "1" ELSE "0"]

\* [x] * n
Repeat(x, n) == [i \in 1..n |-> x]

\* lines 216-219: all_measurements.extend([state] * count) for each item
RECURSIVE ExtendFrom(_, _)
ExtendFrom(c, i) ==
    IF i > Len(c) THEN <<>> ELSE Repeat(c[i][1], c[i][2]) \o ExtendFrom(c, i + 1)

ExtendAll(c) == ExtendFrom(c, 1)

\* xs[:n] for n >= 0
\* faulty variant: the list is not cut
TakeWrong(xs, n) == xs

Take(xs, n) == SubSeq(xs, 1, IF n < Len(xs) THEN n ELSE Len(xs))

(***************************************************************************)
(* Note events. A duration is a quarterLength, held as <<num, den>>.       *)
(***************************************************************************)
EighthNote == <<1, 2>>

NoteEvent(name, duration) == [kind |-> "Note", name |-> name, duration |-> duration]
RestEvent(duration) == [kind |-> "Rest", name |-> <<>>, duration |-> duration]

(***************************************************************************)
(* Exceptions: a raise moves to "raised"; inside a request the handler's   *)
(* except clause takes over from there (HandlerExcept), outside a request  *)
(* the exception propagates to the caller and the run ends.                *)
(***************************************************************************)
InRequest == data /= NoRequest

(***************************************************************************)
(* generate_melody                                                         *)
(***************************************************************************)
\* line 213: the sampling source answers
ExecuteCircuit ==
    /\ pc = "gm_execute"
    /\ \E c \in SamplerResults(args.num_notes) : counts' = c
    /\ pc' = "gm_extend"
    /\ UNCHANGED <<exception, data, args, all_measurements, melody, num_beats, rhythm, file,
                   notes_info, response, quantum_state, clean_state, note_index,
                   semitone_offset, note_name>>

\* line 213: the sampling source raises
ExecuteCircuitFails ==
    /\ pc = "gm_execute"
    /\ pc' = "raised"
    /\ exception' = "SamplingError"
    /\ UNCHANGED <<data, args, counts, all_measurements, melody, num_beats, rhythm,
                   file, notes_info, response, quantum_state, clean_state, note_index,
                   semitone_offset, note_name>>

\* lines 216-219
ExtendMeasurements ==
    /\ pc = "gm_extend"
    /\ all_measurements' = ExtendAll(counts)
    /\ pc' = "gm_pad"
    /\ UNCHANGED <<exception, data, args, counts, melody, num_beats, rhythm, file, notes_info,
                   response, quantum_state, clean_state, note_index, semitone_offset,
                   note_name>>

\* lines 222-226: one iteration of the while loop, counts non-empty
PadFromCounts ==
    /\ pc = "gm_pad"
    /\ Len(all_measurements) < args.num_notes
    /\ Len(counts) > 0
    /\ \E i \in 1..Len(counts) :
          all_measurements' = Append(all_measurements, counts[i][1])
    /\ UNCHANGED <<exception, pc, data, args, counts, melody, num_beats, rhythm, file, notes_info,
                   response, quantum_state, clean_state, note_index, semitone_offset,
                   note_name>>

\* lines 222-229: one iteration of the while loop, counts empty
PadRandomBits ==
    /\ pc = "gm_pad"
    /\ Len(all_measurements) < args.num_notes
    /\ Len(counts) = 0
    /\ \E r \in RandInts :
          all_measurements' = Append(all_measurements, Format08b(r))
    /\ UNCHANGED <<exception, pc, data, args, counts, melody, num_beats, rhythm, file, notes_info,
                   response, quantum_state, clean_state, note_index, semitone_offset,
                   note_name>>

\* lines 222, 232-238: the loop exits, the list is cut, the stream is created
Truncate ==
    /\ pc = "gm_pad"
    /\ ~(Len(all_measurements) < args.num_notes)
    /\ all_measurements' = Take(all_measurements, args.num_notes)
    /\ melody' = <<>>
    /\ pc' = "gm_convert"
    /\ UNCHANGED <<exception, data, args, counts, num_beats, rhythm, file, notes_info, response,
                   quantum_state, clean_state, note_index, semitone_offset, note_name>>

\* lines 241-245: one iteration of the for loop
ConvertNote ==
    /\ pc = "gm_convert"
    /\ Len(melody) < Len(all_measurements)
    /\ \E r \in QuantumToNote(all_measurements[Len(melody) + 1],
                              args.base_note, args.scale_type) :
          IF r.ok
          THEN /\ melody' = Append(melody, NoteEvent(r.name, EighthNote))
               /\ pc' = pc
               /\ exception' = exception
          ELSE /\ melody' = melody
               /\ pc' = "raised"
               /\ exception' = r.error
    /\ UNCHANGED <<data, args, counts, all_measurements, num_beats, rhythm, file,
                   notes_info, response, quantum_state, clean_state, note_index,
                   semitone_offset, note_name>>

\* line 247
MelodyReturn ==
    /\ pc = "gm_convert"
    /\ Len(melody) = Len(all_measurements)
    /\ pc' = "gm_return"
    /\ UNCHANGED <<exception, data, args, counts, all_measurements, melody, num_beats, rhythm,
                   file, notes_info, response, quantum_state, clean_state, note_index,
                   semitone_offset, note_name>>

NextMelody ==
    \/ ExecuteCircuit
    \/ ExecuteCircuitFails
    \/ ExtendMeasurements
    \/ PadFromCounts
    \/ PadRandomBits
    \/ Truncate
    \/ ConvertNote
    \/ MelodyReturn

\* a direct call generate_melody(num_notes, base_note, scale_type)
InitMelody ==
    /\ pc = "gm_execute"
    /\ args \in [num_notes : 0..MaxNotes, base_note : {C4, <<"B", "-", "4">>},
                 scale_type : {"major", "blues"}]
    /\ data = NoRequest
    /\ counts = <<>>
    /\ all_measurements = <<>>
    /\ melody = <<>>
    /\ num_beats = 0
    /\ rhythm = <<>>
    /\ file = "none"
    /\ notes_info = <<>>
    /\ response = NoResponse
    /\ quantum_state = <<>>
    /\ clean_state = <<>>
    /\ note_index = 0
    /\ semitone_offset = 0
    /\ note_name = <<>>
    /\ exception = "none"

\* the loops of generate_melody run on one thread until the function returns
SpecMelody == InitMelody /\ [][NextMelody]_vars /\ WF_vars(NextMelody)

(***************************************************************************)
(* generate_rhythm                                                         *)
(***************************************************************************)
\* largest num_beats of a direct call of generate_rhythm
MaxBeats == 5

RECURSIVE SumFrom(_, _)
SumFrom(xs, i) == IF i > Len(xs) THEN 0 ELSE xs[i] + SumFrom(xs, i + 1)

\* sum(rhythm)
SumSeq(xs) == SumFrom(xs, 1)

\* lines 261-262: one iteration, one random draw
RhythmDraw ==
    /\ pc = "gr_draw"
    /\ Len(rhythm) < num_beats
    /\ \E beat \in {0, 1} : rhythm' = Append(rhythm, beat)
    /\ UNCHANGED <<exception, pc, data, args, counts, all_measurements, melody, num_beats, file,
                   notes_info, response, quantum_state, clean_state, note_index,
                   semitone_offset, note_name>>

\* random.randrange(n): the indices it can return (0-based), none when n <= 0
RandRange(n) == 0..(n - 1)

\* line 266: rhythm[k] = 1 (k is 0-based)
\* faulty variant: no slot is forced
ForceBeatAtWrong(r, k) == r

ForceBeatAt(r, k) == [r EXCEPT ![k + 1] = 1]

\* lines 265-266, all rests: one random slot is forced to 1; random.randrange
\* raises ValueError on an empty range
RhythmForceBeat ==
    /\ pc = "gr_draw"
    /\ ~(Len(rhythm) < num_beats)
    /\ SumSeq(rhythm) = 0
    /\ IF RandRange(num_beats) = {}
       THEN /\ rhythm' = rhythm
            /\ pc' = "raised"
            /\ exception' = "ValueError"
       ELSE /\ \E k \in RandRange(num_beats) : rhythm' = ForceBeatAt(rhythm, k)
            /\ pc' = "gr_return"
            /\ exception' = exception
    /\ UNCHANGED <<data, args, counts, all_measurements, melody, num_beats, file,
                   notes_info, response, quantum_state, clean_state, note_index,
                   semitone_offset, note_name>>

\* lines 265, 268: some beat was drawn
RhythmReturn ==
    /\ pc = "gr_draw"
    /\ ~(Len(rhythm) < num_beats)
    /\ SumSeq(rhythm) /= 0
    /\ pc' = "gr_return"
    /\ UNCHANGED <<exception, data, args, counts, all_measurements, melody, num_beats, rhythm,
                   file, notes_info, response, quantum_state, clean_state, note_index,
                   semitone_offset, note_name>>

NextRhythm ==
    \/ RhythmDraw
    \/ RhythmForceBeat
    \/ RhythmReturn

\* a direct call generate_rhythm(num_beats)
InitRhythm ==
    /\ pc = "gr_draw"
    /\ num_beats \in 0..MaxBeats
    /\ rhythm = <<>>
    /\ args = NoArgs
    /\ data = NoRequest
    /\ counts = <<>>
    /\ all_measurements = <<>>
    /\ melody = <<>>
    /\ file = "none"
    /\ notes_info = <<>>
    /\ response = NoResponse
    /\ quantum_state = <<>>
    /\ clean_state = <<>>
    /\ note_index = 0
    /\ semitone_offset = 0
    /\ note_name = <<>>
    /\ exception = "none"

SpecRhythm == InitRhythm /\ [][NextRhythm]_vars

(***************************************************************************)
(* The rhythm overlay: generate_full_composition lines 329-336 and the     *)
(* handler's rhythm branch, lines 59-70.                                   *)
(***************************************************************************)
Min(a, b) == IF a < b THEN a ELSE b

\* rest = note.Rest(); rest.duration = n.duration
\* faulty variant: the rest keeps music21's default duration of a quarter
GateElementWrong(n, r) ==
    IF r = 0 /\ n.kind = "Note" THEN RestEvent(<<1, 1>>) ELSE n

GateElement(n, r) ==
    IF r = 0 /\ n.kind = "Note" THEN RestEvent(n.duration) ELSE n

\* for (n, r) in zip(all_elements[:num_notes], rhythm[:num_notes]):
\*     if r == 0 and isinstance(n, note.Note): melody.replace(n, rest)
ApplyRhythm(elements, gate, n) ==
    LET zipped == Min(Len(Take(elements, n)), Len(Take(gate, n)))
    IN  [i \in 1..Len(elements) |->
            IF i <= zipped THEN GateElement(elements[i], gate[i]) ELSE elements[i]]

(***************************************************************************)
(* The request handler generate_music (POST /api/generate).                *)
(***************************************************************************)
RequestTypes == {"melody", "rhythm", "full"}

\* a body that is no JSON object: data.get raises
NullBody == [num_notes |-> 0, base_note |-> <<>>, scale_type |-> "none", type |-> "null"]

\* a base note music21 cannot parse
BadNote == <<"H", "4">>

\* requests of a few notes, of every type, base note and scale
SmallRequests ==
    [num_notes : 0..MaxNotes,
     base_note : {C4, <<"B", "-", "4">>, BadNote},
     scale_type : {"major", "blues"},
     type : RequestTypes]

\* requests of a measure or more, where full mode composes NotesPerMeasure notes
MeasureRequests ==
    [num_notes : NotesPerMeasure..(NotesPerMeasure + MaxExtra),
     base_note : {C4},
     scale_type : {"major"},
     type : {"melody", "full"}]

Requests == {NullBody} \cup SmallRequests \cup MeasureRequests

Init ==
    /\ pc = "request"
    /\ data \in Requests
    /\ args = NoArgs
    /\ counts = <<>>
    /\ all_measurements = <<>>
    /\ melody = <<>>
    /\ num_beats = 0
    /\ rhythm = <<>>
    /\ file = "none"
    /\ notes_info = <<>>
    /\ response = NoResponse
    /\ quantum_state = <<>>
    /\ clean_state = <<>>
    /\ note_index = 0
    /\ semitone_offset = 0
    /\ note_name = <<>>
    /\ exception = "none"

\* app.py line 43
NumMeasures(num_notes) == num_notes \div NotesPerMeasure

\* quantum_music.py line 320
FullNumNotes(num_measures) == num_measures * NotesPerMeasure

\* lines 28-56: the parameters are read and the generator is called; in full
\* mode through generate_full_composition (quantum_music.py lines 320-323)
Dispatch ==
    /\ pc = "request"
    /\ IF data = NullBody
       THEN /\ args' = args
            /\ pc' = "raised"
            /\ exception' = "AttributeError"
       ELSE IF data.type = "full"
       THEN IF Len(data.base_note) = 0
            THEN /\ args' = args
                 /\ pc' = "raised"
                 /\ exception' = "IndexError"
            ELSE /\ args' = [num_notes  |-> FullNumNotes(NumMeasures(data.num_notes)),
                             base_note  |-> <<data.base_note[1], Digits[FullOctave + 1]>>,
                             scale_type |-> "major"]
                 /\ pc' = "gm_execute"
                 /\ exception' = exception
       ELSE /\ args' = [num_notes  |-> data.num_notes,
                        base_note  |-> data.base_note,
                        scale_type |-> data.scale_type]
            /\ pc' = "gm_execute"
            /\ exception' = exception
    /\ UNCHANGED <<data, counts, all_measurements, melody, num_beats, rhythm, file,
                   notes_info, response, quantum_state, clean_state, note_index,
                   semitone_offset, note_name>>

\* lines 36-41: a melody request goes on to serialisation
MelodyOnly ==
    /\ pc = "gm_return"
    /\ InRequest
    /\ data.type = "melody"
    /\ pc' = "serialize"
    /\ UNCHANGED <<exception, data, args, counts, all_measurements, melody, num_beats, rhythm,
                   file, notes_info, response, quantum_state, clean_state, note_index,
                   semitone_offset, note_name>>

\* quantum_music.py line 326 (full) and app.py line 57 (rhythm)
CallRhythm ==
    /\ pc = "gm_return"
    /\ InRequest
    /\ data.type /= "melody"
    /\ num_beats' = IF data.type = "full" THEN args.num_notes ELSE data.num_notes
    /\ rhythm' = <<>>
    /\ pc' = "gr_draw"
    /\ UNCHANGED <<exception, data, args, counts, all_measurements, melody, file, notes_info,
                   response, quantum_state, clean_state, note_index, semitone_offset,
                   note_name>>

\* quantum_music.py lines 329-338
ApplyRhythmFull ==
    /\ pc = "gr_return"
    /\ InRequest
    /\ data.type = "full"
    /\ melody' = ApplyRhythm(melody, rhythm, args.num_notes)
    /\ pc' = "serialize"
    /\ UNCHANGED <<exception, data, args, counts, all_measurements, num_beats, rhythm, file,
                   notes_info, response, quantum_state, clean_state, note_index,
                   semitone_offset, note_name>>

\* app.py lines 59-70
ApplyRhythmApp ==
    /\ pc = "gr_return"
    /\ InRequest
    /\ data.type /= "full"
    /\ melody' = ApplyRhythm(melody, rhythm, data.num_notes)
    /\ pc' = "serialize"
    /\ UNCHANGED <<exception, data, args, counts, all_measurements, num_beats, rhythm, file,
                   notes_info, response, quantum_state, clean_state, note_index,
                   semitone_offset, note_name>>

\* lines 73-75: the temporary file is created and the stream written to it
Serialize ==
    /\ pc = "serialize"
    /\ file' = "written"
    /\ pc' = "collect"
    /\ UNCHANGED <<exception, data, args, counts, all_measurements, melody, num_beats, rhythm,
                   notes_info, response, quantum_state, clean_state, note_index,
                   semitone_offset, note_name>>

\* lines 73-75: the file is created and writing the stream to it raises
SerializeFails ==
    /\ pc = "serialize"
    /\ file' = "created"
    /\ pc' = "raised"
    /\ exception' = "SerializationError"
    /\ UNCHANGED <<data, args, counts, all_measurements, melody, num_beats, rhythm,
                   notes_info, response, quantum_state, clean_state, note_index,
                   semitone_offset, note_name>>

Rest == <<"R", "e", "s", "t">>

\* lines 92-101: one entry of notes_info
NoteInfo(n) ==
    IF n.kind = "Note" THEN [note |-> n.name, duration |-> n.duration]
    ELSE [note |-> Rest, duration |-> n.duration]

\* line 88
\* faulty variant: one element too few
ElementsToProcessWrong(all_elements, num_notes) == Take(all_elements, num_notes - 1)

ElementsToProcess(all_elements, num_notes) ==
    IF Len(all_elements) >= num_notes THEN Take(all_elements, num_notes)
    ELSE all_elements

\* lines 78-113
NotesInfo(all_elements, num_notes) ==
    LET elements_to_process == ElementsToProcess(all_elements, num_notes)
    IN  [i \in 1..Len(elements_to_process) |-> NoteInfo(elements_to_process[i])]

\* lines 124-128
SuccessResponse(name, notes) ==
    [success |-> TRUE, status |-> OkStatus, file |-> name, notes |-> notes,
     error |-> "none"]

\* lines 131-134
\* faulty variant: the status is left at its default
FailureResponseWrong(e) ==
    [success |-> FALSE, status |-> OkStatus, file |-> "none", notes |-> <<>>,
     error |-> e]

FailureResponse(e) ==
    [success |-> FALSE, status |-> ErrorStatus, file |-> "none", notes |-> <<>>,
     error |-> e]

\* lines 77-128: the notes are listed and the success response returned
Respond ==
    /\ pc = "collect"
    /\ notes_info' = NotesInfo(melody, data.num_notes)
    /\ response' = SuccessResponse(file, notes_info')
    /\ pc' = "responded"
    /\ UNCHANGED <<exception, data, args, counts, all_measurements, melody, num_beats, rhythm,
                   file, quantum_state, clean_state, note_index, semitone_offset,
                   note_name>>

\* lines 130-134: the except clause
HandlerExcept ==
    /\ pc = "raised"
    /\ InRequest
    /\ response' = FailureResponse(exception)
    /\ pc' = "responded"
    /\ UNCHANGED <<exception, data, args, counts, all_measurements, melody, num_beats, rhythm,
                   file, notes_info, quantum_state, clean_state, note_index,
                   semitone_offset, note_name>>

Next ==
    \/ Dispatch
    \/ NextMelody
    \/ MelodyOnly
    \/ CallRhythm
    \/ NextRhythm
    \/ ApplyRhythmFull
    \/ ApplyRhythmApp
    \/ Serialize
    \/ SerializeFails
    \/ Respond
    \/ HandlerExcept

Spec == Init /\ [][Next]_vars

(***************************************************************************)
(* Properties.                                                             *)
(***************************************************************************)
\* the offsets of the scale a name selects, as the specification lists them
ListedOffsets(scale_type) ==
    IF scale_type = "major" THEN {0, 2, 4, 5, 7, 9, 11}
    ELSE IF scale_type = "minor" THEN {0, 2, 3, 5, 7, 8, 10}
    ELSE 0..11

\* the semitone distance of the returned pitch from the base pitch
Distance == MidiOf(note_name) - MidiOf(args.base_note)

SurvivingBits == OnlyBits(Remove0x(StripSpaces(quantum_state)))

\* C4: a token without any binary digit after filtering (the empty token
\* included) does not make quantum_to_note raise: "0" is substituted and an
\* in-scale pitch is returned.
C4_FallbackInScale ==
    (pc /= "q2n_call" /\ SurvivingBits = <<>>) =>
        /\ pc = "q2n_return"
        /\ clean_state = <<"0">>
        /\ ValidNoteName(note_name)
        /\ Distance \in ListedOffsets(args.scale_type)

\* a token of a prefix, a separator and a letter, mapped with base C4
C4_Witness ==
    /\ pc = "q2n_return"
    /\ quantum_state = <<"0", "x", " ", "x">>
    /\ args.base_note = C4
    /\ note_name = C4

\* C5 as stated: normalisation is the identity on every string of binary
\* digits of length <= 4.
C5_Original ==
    (pc /= "q2n_call" /\ AllBinary(quantum_state) /\ Len(quantum_state) <= 4) =>
        clean_state = quantum_state

\* C5 amended: normalisation is the identity on every non-empty string of
\* binary digits of length <= 4 (the empty string becomes "0").
C5_IdentityOnNonEmpty ==
    (pc /= "q2n_call" /\ AllBinary(quantum_state) /\ Len(quantum_state) >= 1
        /\ Len(quantum_state) <= 4) =>
        clean_state = quantum_state

\* a four-digit token that came through unchanged
C5_Witness ==
    /\ pc = "q2n_return"
    /\ quantum_state = <<"1", "0", "1", "1">>
    /\ clean_state = quantum_state

\* the base-2 value of a digit string, by positional weights
RECURSIVE WeightedSum(_, _)
WeightedSum(s, i) ==
    IF i > Len(s) THEN 0
    ELSE (IF s[i] = "1" THEN Pow2(Len(s) - i) ELSE 0) + WeightedSum(s, i + 1)

\* v: the base-2 value of the first four binary digits of the token
FirstFourValue ==
    WeightedSum(SubSeq(SurvivingBits, 1, Min(4, Len(SurvivingBits))), 1)

ListedScale(scale_type) ==
    IF scale_type = "major" THEN <<0, 2, 4, 5, 7, 9, 11>>
    ELSE IF scale_type = "minor" THEN <<0, 2, 3, 5, 7, 8, 10>>
    ELSE <<0, 1, 2, 3, 4, 5, 6, 7, 8, 9, 10, 11>>

\* C6: the offset chosen is scale[(v mod 12) mod len(scale)] for v the value
\* of the first four binary digits, whatever follows them; "00000000" with
\* C4 major gives offset 0 and C4, "0010" gives offset 4 and E4.
C6_OffsetFormula ==
    pc /= "q2n_call" =>
        /\ pc = "q2n_return"
        /\ semitone_offset =
              ListedScale(args.scale_type)
                  [((FirstFourValue % 12) % Len(ListedScale(args.scale_type))) + 1]
        /\ Distance = semitone_offset
        /\ (args.base_note = C4 /\ args.scale_type = "major"
              /\ quantum_state = <<"0", "0", "0", "0", "0", "0", "0", "0">>)
              => (semitone_offset = 0 /\ note_name = C4)
        /\ (args.base_note = C4 /\ args.scale_type = "major"
              /\ quantum_state = <<"0", "0", "1", "0">>)
              => (semitone_offset = 4 /\ note_name = <<"E", "4">>)

\* a five-digit token whose fifth digit is set: 1101 is 13, 13 mod 12 is 1,
\* step 1 of the major scale is 2
C6_Witness ==
    /\ pc = "q2n_return"
    /\ quantum_state = <<"1", "1", "0", "1", "1">>
    /\ args.scale_type = "major"
    /\ args.base_note = C4
    /\ note_name = <<"D", "4">>

\* C2: whatever mapping the sampling source returns for count >= 0 (total
\* below, equal to or above count, or empty), generate_melody goes on to
\* return exactly count note events.
C2_ExactCount ==
    (pc = "gm_extend") ~>
        (/\ pc = "gm_return"
         /\ Len(melody) = args.num_notes
         /\ \A i \in 1..Len(melody) : melody[i].kind = "Note")

\* a melody of three notes padded from an empty mapping
C2_Witness ==
    /\ pc = "gm_return"
    /\ counts = <<>>
    /\ args.num_notes = 3
    /\ Len(melody) = 3

\* C3: for every length >= 1 and every outcome of the draws, generate_rhythm
\* returns a sequence of that length with at least one 1.
C3_AtLeastOneBeat ==
    num_beats >= 1 =>
        /\ pc /= "raised"
        /\ pc = "gr_return" =>
              /\ Len(rhythm) = num_beats
              /\ \E i \in 1..Len(rhythm) : rhythm[i] = 1

\* a gate of three slots with a single beat
C3_Witness ==
    /\ pc = "gr_return"
    /\ num_beats = 3
    /\ rhythm = <<0, 0, 1>>

\* C7: a successful melody request of n >= 1 notes lists exactly n entries,
\* each a pitch name (never Rest) of duration 0.5.
C7_MelodyNotes ==
    (pc = "responded" /\ response.success /\ data.type = "melody"
        /\ data.num_notes >= 1) =>
        /\ Len(response.notes) = data.num_notes
        /\ \A i \in 1..Len(response.notes) :
              /\ response.notes[i].note /= Rest
              /\ ValidNoteName(response.notes[i].note)
              /\ response.notes[i].duration = <<1, 2>>

\* the scenario {num_notes: 8, type: "melody"}
C7_Witness ==
    /\ pc = "responded"
    /\ response.success
    /\ data.type = "melody"
    /\ data.num_notes = 8
    /\ Len(response.notes) = 8

\* C8: a request ends in full success (a written file and the complete notes
\* list) or in full failure (status 500, an error, no notes); a raised
\* exception is always taken by the except clause, and no response exists
\* before the handler returns.
C8_TwoOutcomes ==
    /\ (pc = "responded") <=> (response /= NoResponse)
    /\ pc = "raised" => (exception /= "none" /\ ENABLED HandlerExcept)
    /\ pc = "responded" =>
          \/ /\ response.success
             /\ response.status = 200
             /\ exception = "none"
             /\ response.file = "written"
             /\ response.error = "none"
             /\ Len(response.notes) = Min(Len(melody), data.num_notes)
             /\ \A i \in 1..Len(response.notes) :
                   /\ response.notes[i].duration = melody[i].duration
                   /\ response.notes[i].note =
                         (IF melody[i].kind = "Note" THEN melody[i].name ELSE Rest)
          \/ /\ ~response.success
             /\ response.status = 500
             /\ exception /= "none"
             /\ response.error = exception
             /\ response.notes = <<>>
             /\ response.file = "none"

\* a failure after the notes were generated: serialisation raised
C8_Witness ==
    /\ pc = "responded"
    /\ ~response.success
    /\ exception = "SerializationError"
    /\ Len(melody) = 3
    /\ response.notes = <<>>

\* C9 as stated: in full mode the composition has measures * 8 events, with
\* measures = num_notes // 8, and the rhythm overlay is always applied: the
\* gate generation never fails, and the composition handed to serialisation
\* has 8 * (num_notes // 8) events, silent wherever the gate is 0.
C9_FullComposition ==
    (data.type = "full" /\ data /= NullBody) =>
        /\ exception /= "ValueError"
        /\ pc \in {"serialize", "collect"} =>
              /\ Len(melody) = 8 * (data.num_notes \div 8)
              /\ Len(rhythm) = Len(melody)
              /\ \A i \in 1..Len(melody) : rhythm[i] = 0 => melody[i].kind = "Rest"

\* C10: the overlay keeps the length; a pitched event under a 0 gate becomes
\* a rest of the same duration; every other event is unchanged.
C10_OverlayFrame ==
    [][(pc = "gr_return" /\ pc' = "serialize" /\ Len(rhythm) = Len(melody)) =>
          /\ Len(melody') = Len(melody)
          /\ \A i \in 1..Len(melody) :
                IF rhythm[i] = 0 /\ melody[i].kind = "Note"
                THEN /\ melody'[i].kind = "Rest"
                     /\ melody'[i].duration = melody[i].duration
                ELSE melody'[i] = melody[i]]_vars

\* an overlaid sequence with a silenced slot and a sounding slot
C10_Witness ==
    /\ pc = "serialize"
    /\ data.type = "rhythm"
    /\ Len(melody) = 3
    /\ rhythm = <<1, 0, 1>>
    /\ melody[1].kind = "Note"
    /\ melody[2] = RestEvent(EighthNote)
    /\ melody[3].kind = "Note"

\* C11: a successful response of type rhythm or full with a non-empty notes
\* list has at least one entry that is not Rest: the gate holds a 1 and the
\* melody under it is pitched, so the overlay never silences every slot.
C11_NeverAllRests ==
    (pc = "responded" /\ response.success /\ data.type \in {"rhythm", "full"}
        /\ Len(response.notes) > 0) =>
        \E i \in 1..Len(response.notes) : response.notes[i].note /= Rest

\* a full composition of one measure in which a single slot sounds
C11_Witness ==
    /\ pc = "responded"
    /\ response.success
    /\ data.type = "full"
    /\ Len(response.notes) = 8
    /\ rhythm = <<0, 0, 0, 0, 0, 1, 0, 0>>
    /\ response.notes[6].note /= Rest
    /\ \A i \in (1..8) \ {6} : response.notes[i].note = Rest

====
